---- MODULE Spec2Model ----
(***************************************************************************)
(* The reality kernel of zerofold-reality-os/src/index.ts: an append-only  *)
(* event log (RealityKernel) and its branches (RealityBranch), with the    *)
(* reducers of the two demonstration scripts.  JavaScript arrays are       *)
(* objects held by reference, so the model keeps them in a heap: a         *)
(* sequence of event lists addressed by position.                          *)
(***************************************************************************)
EXTENDS Integers, Sequences, FiniteSets, TLC

\* ------------------------------------------------------------------------
\* Bounds of the model
\* ------------------------------------------------------------------------
MaxLog == 2          \* events in the list of the kernel, or of its one branch
MaxRetro == 1        \* retroInsert calls, over all branches
MaxBranches == 3     \* branches created by fork and merge
MaxLen == 3          \* events the callers have inserted into two branches beforehand

\* ------------------------------------------------------------------------
\* Events.  An id is a JavaScript string: a sequence of UTF-16 code units.
\* ------------------------------------------------------------------------
IdF == <<102>>                \* "f"
IdEacute == <<233>>           \* e with acute, precomposed
IdEcombining == <<101, 769>>  \* e followed by the combining acute
IdN == <<110>>                \* "n"

\* The events the callers supply: two events under one id, and two events
\* whose ids are different strings that are canonically equivalent.
EvF1 == [id |-> IdF, t |-> 1, type |-> "add", payload |-> [key |-> "x", value |-> 1]]
EvF2 == [id |-> IdF, t |-> 2, type |-> "remove", payload |-> [key |-> "x", value |-> 0]]
EvE1 == [id |-> IdEacute, t |-> 2, type |-> "add", payload |-> [key |-> "x", value |-> 2]]
EvE2 == [id |-> IdEcombining, t |-> 2, type |-> "add", payload |-> [key |-> "x", value |-> 3]]

Events == {EvF1, EvF2, EvE1, EvE2}

\* payload is of type unknown: an event may carry null
Null == [null |-> TRUE]
EvNull == [id |-> IdN, t |-> 1, type |-> "add", payload |-> Null]

AllEvents == Events \cup {EvNull}

\* The untilT arguments of fork: <<>> is the omitted argument.
Cutoffs == {<<>>, <<0>>, <<1>>}

\* ------------------------------------------------------------------------
\* String.prototype.localeCompare, as the ICU root collation computes it on
\* the code units above: canonical decomposition, then the primary weights
\* (base letters), then the secondary weights (accents), then the tertiary
\* weights (case).  Canonically equivalent strings compare as 0.
\* ------------------------------------------------------------------------
Decompose(c) == IF c = 233 THEN <<101, 769>> ELSE <<c>>

RECURSIVE NFD(_)
NFD(s) == IF s = <<>> THEN <<>> ELSE Decompose(Head(s)) \o NFD(Tail(s))

Primary(c) == CASE c = 101 -> 5 [] c = 102 -> 6 [] c = 110 -> 14 [] OTHER -> 0
Secondary(c) == CASE c = 769 -> 2 [] OTHER -> 1
Tertiary(c) == CASE c \in 65..90 -> 2 [] OTHER -> 1

RECURSIVE Weights(_, _)
Weights(s, level) ==
    IF s = <<>> THEN <<>>
    ELSE LET w == CASE level = 1 -> Primary(Head(s))
                    [] level = 2 -> Secondary(Head(s))
                    [] OTHER -> Tertiary(Head(s))
         IN  (IF w = 0 THEN <<>> ELSE <<w>>) \o Weights(Tail(s), level)

RECURSIVE SeqCompare(_, _)
SeqCompare(u, v) ==
    IF u = <<>> THEN (IF v = <<>> THEN 0 ELSE -1)
    ELSE IF v = <<>> THEN 1
    ELSE IF Head(u) < Head(v) THEN -1
    ELSE IF Head(u) > Head(v) THEN 1
    ELSE SeqCompare(Tail(u), Tail(v))

localeCompare(x, y) ==
    LET p == SeqCompare(Weights(NFD(x), 1), Weights(NFD(y), 1))
        s == SeqCompare(Weights(NFD(x), 2), Weights(NFD(y), 2))
        q == SeqCompare(Weights(NFD(x), 3), Weights(NFD(y), 3))
    IN  IF p # 0 THEN p ELSE IF s # 0 THEN s ELSE q

\* The comparator of both sort calls.
compare(a, b) == IF a.t = b.t THEN localeCompare(a.id, b.id) ELSE a.t - b.t

\* a sort that is not stable: each element placed before the elements that
\* compare equal to it
Insert_unstable(s, x) ==
    LET k == Cardinality({i \in 1..Len(s) : compare(s[i], x) < 0})
    IN  SubSeq(s, 1, k) \o <<x>> \o SubSeq(s, k + 1, Len(s))

\* Array.prototype.sort: a stable sort, each element placed after the
\* elements that do not compare greater than it.
Insert(s, x) ==
    LET k == Cardinality({i \in 1..Len(s) : compare(s[i], x) <= 0})
    IN  SubSeq(s, 1, k) \o <<x>> \o SubSeq(s, k + 1, Len(s))

RECURSIVE sort(_)
sort(s) ==
    IF s = <<>> THEN <<>>
    ELSE Insert(sort(SubSeq(s, 1, Len(s) - 1)), s[Len(s)])

\* ------------------------------------------------------------------------
\* States and reducers.  A State is an object: a set of <<key, value>>
\* entries, one per key.
\* ------------------------------------------------------------------------
EmptyState == {}

Without(state, key) == {p \in state : p[1] # key}

defaultReducer(state, event) ==
    IF event.type = "add"
    THEN Without(state, event.payload.key) \cup {<<event.payload.key, event.payload.value>>}
    ELSE IF event.type = "remove"
    THEN Without(state, event.payload.key)
    ELSE state

reducer(state, event) ==
    IF event.type = "add"
    THEN Without(state, event.payload.key) \cup {<<event.payload.key, event.payload.value>>}
    ELSE state

Apply(reduce, state, event) ==
    IF reduce = "defaultReducer" THEN defaultReducer(state, event)
    ELSE reducer(state, event)

\* (event.payload as any).key on a null payload throws a TypeError
Throws(reduce, event) ==
    /\ event.payload = Null
    /\ \/ event.type = "add"
       \/ reduce = "defaultReducer" /\ event.type = "remove"

\* Array.prototype.reduce(this.reduce, {}): the accumulated state, or the
\* error the callback threw, in which case there is no result
RECURSIVE Fold(_, _, _)
Fold(reduce, state, s) ==
    IF s = <<>> THEN [result |-> state, error |-> "none"]
    ELSE IF Throws(reduce, Head(s)) THEN [result |-> EmptyState, error |-> "TypeError"]
    ELSE Fold(reduce, Apply(reduce, state, Head(s)), Tail(s))

\* ------------------------------------------------------------------------
\* The operations of index.ts.  Each takes the heap and returns what the
\* call leaves behind: the heap after it, the value it returns, and the
\* error it throws ("none" when it returns).
\* ------------------------------------------------------------------------
POSITIVE_INFINITY == [finite |-> FALSE, n |-> 0]

\* Cut with || in place of ??: a cutoff of 0 counts as omitted
Cut_falsy(untilT) ==
    IF untilT = <<>> \/ untilT[1] = 0 THEN POSITIVE_INFINITY
    ELSE [finite |-> TRUE, n |-> untilT[1]]

\* Cut that takes only a positive cutoff for a cutoff
Cut_nonPositive(untilT) ==
    IF untilT = <<>> \/ untilT[1] <= 0 THEN POSITIVE_INFINITY
    ELSE [finite |-> TRUE, n |-> untilT[1]]

\* const cut = untilT ?? Number.POSITIVE_INFINITY
Cut(untilT) ==
    IF untilT = <<>> THEN POSITIVE_INFINITY
    ELSE [finite |-> TRUE, n |-> untilT[1]]

\* InCut with < in place of <=: an exclusive cutoff
InCut_strict(e, cut) == (~cut.finite) \/ e.t < cut.n

\* InCut with === in place of <=: only the events at the cutoff
InCut_exact(e, cut) == (~cut.finite) \/ e.t = cut.n

\* (e) => e.t <= cut
InCut(e, cut) == (~cut.finite) \/ e.t <= cut.n

\* append that throws on an event earlier than the last one of the list
append_ordered(h, k, event) ==
    IF h[k.events] # <<>> /\ event.t < h[k.events][Len(h[k.events])].t
    THEN [heap |-> h, error |-> "RangeError"]
    ELSE [heap |-> [h EXCEPT ![k.events] = Append(@, event)], error |-> "none"]

\* append with unshift in place of push: the event goes to the front
append_front(h, k, event) ==
    [heap |-> [h EXCEPT ![k.events] = <<event>> \o @], error |-> "none"]

\* RealityKernel.append
append(h, k, event) ==
    [heap |-> [h EXCEPT ![k.events] = Append(@, event)], error |-> "none"]

\* fork that hands out the kernel's own list when no cutoff is given
fork_view(h, k, untilT) ==
    IF untilT = <<>>
    THEN [heap |-> h, branch |-> [log |-> k.events, reduce |-> k.reduce],
          error |-> "none"]
    ELSE LET forkLog == SelectSeq(h[k.events], LAMBDA e : InCut(e, Cut(untilT)))
         IN  [heap |-> Append(h, forkLog),
              branch |-> [log |-> Len(h) + 1, reduce |-> k.reduce],
              error |-> "none"]

\* fork that moves the events of the cut out of the kernel's list
fork_drain(h, k, untilT) ==
    LET forkLog == SelectSeq(h[k.events], LAMBDA e : InCut(e, Cut(untilT)))
        rest == SelectSeq(h[k.events], LAMBDA e : ~InCut(e, Cut(untilT)))
    IN  [heap |-> Append([h EXCEPT ![k.events] = rest], forkLog),
         branch |-> [log |-> Len(h) + 1, reduce |-> k.reduce],
         error |-> "none"]

\* RealityKernel.fork: filter allocates the list of the new branch
fork(h, k, untilT) ==
    LET forkLog == SelectSeq(h[k.events], LAMBDA e : InCut(e, Cut(untilT)))
    IN  [heap |-> Append(h, forkLog),
         branch |-> [log |-> Len(h) + 1, reduce |-> k.reduce],
         error |-> "none"]

\* state that folds the events by shifting them off this.log
state_consume(h, this) ==
    LET f == Fold(this.reduce, EmptyState, sort(h[this.log]))
    IN  [heap |-> [h EXCEPT ![this.log] = <<>>],
         result |-> f.result, error |-> f.error]

\* state that catches what the reducer throws and returns the empty state
state_catch(h, this) ==
    LET f == Fold(this.reduce, EmptyState, sort(h[this.log]))
    IN  [heap |-> h, result |-> f.result, error |-> "none"]

\* state that sorts this.log itself, without the spread
state_sortInPlace(h, this) ==
    LET sorted == sort(h[this.log])
        f == Fold(this.reduce, EmptyState, sorted)
    IN  [heap |-> [h EXCEPT ![this.log] = sorted], result |-> f.result, error |-> f.error]

\* RealityBranch.state: sorts and folds a copy of this.log
state(h, this) ==
    LET f == Fold(this.reduce, EmptyState, sort(h[this.log]))
    IN  [heap |-> h, result |-> f.result, error |-> f.error]

\* retroInsert that skips an event whose id the list already holds
retroInsert_unique(h, this, event) ==
    IF \E i \in 1..Len(h[this.log]) : h[this.log][i].id = event.id
    THEN [heap |-> h, error |-> "none"]
    ELSE [heap |-> [h EXCEPT ![this.log] = Append(@, event)], error |-> "none"]

\* retroInsert that places the event at its sorted position
retroInsert_sorted(h, this, event) ==
    [heap |-> [h EXCEPT ![this.log] = Insert(@, event)], error |-> "none"]

\* retroInsert that puts the event at the head of the list
retroInsert_front(h, this, event) ==
    [heap |-> [h EXCEPT ![this.log] = <<event>> \o @], error |-> "none"]

\* RealityBranch.retroInsert
retroInsert(h, this, event) ==
    [heap |-> [h EXCEPT ![this.log] = Append(@, event)], error |-> "none"]

\* diff that looks the events up in this.log instead of their ids
diff_byEvent(h, this, other) ==
    [heap |-> h,
     result |-> SelectSeq(h[other.log],
                          LAMBDA e : \A i \in 1..Len(h[this.log]) : h[this.log][i] # e),
     error |-> "none"]

\* diff that builds the id set from other.log: nothing is ever missing
diff_otherIds(h, this, other) ==
    LET otherIds == {h[other.log][i].id : i \in 1..Len(h[other.log])}
    IN  [heap |-> h,
         result |-> SelectSeq(h[other.log], LAMBDA e : e.id \notin otherIds),
         error |-> "none"]

\* diff that sorts the list of the other branch in place before filtering it
diff_sortsOther(h, this, other) ==
    LET thisIds == {h[this.log][i].id : i \in 1..Len(h[this.log])}
        sorted == [h EXCEPT ![other.log] = sort(@)]
    IN  [heap |-> sorted,
         result |-> SelectSeq(sorted[other.log], LAMBDA e : e.id \notin thisIds),
         error |-> "none"]

\* diff that stops at the first event of other whose id this lacks
diff_find(h, this, other) ==
    LET thisIds == {h[this.log][i].id : i \in 1..Len(h[this.log])}
        found == SelectSeq(h[other.log], LAMBDA e : e.id \notin thisIds)
    IN  [heap |-> h,
         result |-> IF found = <<>> THEN <<>> ELSE <<found[1]>>,
         error |-> "none"]

\* diff that tells the events of other apart by t, not by id
diff_byT(h, this, other) ==
    LET thisTs == {h[this.log][i].t : i \in 1..Len(h[this.log])}
    IN  [heap |-> h,
         result |-> SelectSeq(h[other.log], LAMBDA e : e.t \notin thisTs),
         error |-> "none"]

\* diff that returns the events it found in sorted order
diff_sorted(h, this, other) ==
    LET thisIds == {h[this.log][i].id : i \in 1..Len(h[this.log])}
    IN  [heap |-> h,
         result |-> sort(SelectSeq(h[other.log], LAMBDA e : e.id \notin thisIds)),
         error |-> "none"]

\* RealityBranch.diff
diff(h, this, other) ==
    LET thisIds == {h[this.log][i].id : i \in 1..Len(h[this.log])}
    IN  [heap |-> h,
         result |-> SelectSeq(h[other.log], LAMBDA e : e.id \notin thisIds),
         error |-> "none"]

\* merge that takes other.diff(this) for this.diff(other)
merge_swappedDiff(h, this, other) ==
    LET d == diff(h, other, this)
        merged == sort(h[this.log] \o d.result)
    IN  [heap |-> Append(d.heap, merged),
         branch |-> [log |-> Len(d.heap) + 1, reduce |-> this.reduce],
         error |-> "none"]

\* merge that pushes the diff onto this.log and sorts this.log in place
merge_inPlace(h, this, other) ==
    LET d == diff(h, this, other)
        merged == sort(d.heap[this.log] \o d.result)
    IN  [heap |-> Append([d.heap EXCEPT ![this.log] = merged], merged),
         branch |-> [log |-> Len(d.heap) + 1, reduce |-> this.reduce],
         error |-> "none"]

\* merge that concatenates other.log without taking the diff
merge_concat(h, this, other) ==
    LET merged == sort(h[this.log] \o h[other.log])
    IN  [heap |-> Append(h, merged),
         branch |-> [log |-> Len(h) + 1, reduce |-> this.reduce],
         error |-> "none"]

\* merge that sorts this.diff(other) alone, without the spread of this.log
merge_diffOnly(h, this, other) ==
    LET d == diff(h, this, other)
        merged == sort(d.result)
    IN  [heap |-> Append(d.heap, merged),
         branch |-> [log |-> Len(d.heap) + 1, reduce |-> this.reduce],
         error |-> "none"]

\* merge that returns the receiver itself when other has nothing to add
merge_returnsThis(h, this, other) ==
    LET d == diff(h, this, other)
        merged == sort(h[this.log] \o d.result)
    IN  IF d.result = <<>>
        THEN [heap |-> d.heap, branch |-> this, error |-> "none"]
        ELSE [heap |-> Append(d.heap, merged),
              branch |-> [log |-> Len(d.heap) + 1, reduce |-> this.reduce],
              error |-> "none"]

\* merge that moves the events it takes from other one tick later
merge_restamp(h, this, other) ==
    LET d == diff(h, this, other)
        moved == [k \in 1..Len(d.result) |-> [d.result[k] EXCEPT !.t = @ + 1]]
        merged == sort(h[this.log] \o moved)
    IN  [heap |-> Append(d.heap, merged),
         branch |-> [log |-> Len(d.heap) + 1, reduce |-> this.reduce],
         error |-> "none"]

\* merge that leaves the array literal unsorted
merge_unsorted(h, this, other) ==
    LET d == diff(h, this, other)
        merged == h[this.log] \o d.result
    IN  [heap |-> Append(d.heap, merged),
         branch |-> [log |-> Len(d.heap) + 1, reduce |-> this.reduce],
         error |-> "none"]

\* merge that keeps the events of other and adds what only this holds
merge_otherWins(h, this, other) ==
    LET d == diff(h, other, this)
        merged == sort(h[other.log] \o d.result)
    IN  [heap |-> Append(d.heap, merged),
         branch |-> [log |-> Len(d.heap) + 1, reduce |-> this.reduce],
         error |-> "none"]

\* merge that hands the new branch the reducer of other
merge_otherReducer(h, this, other) ==
    LET d == diff(h, this, other)
        merged == sort(h[this.log] \o d.result)
    IN  [heap |-> Append(d.heap, merged),
         branch |-> [log |-> Len(d.heap) + 1, reduce |-> other.reduce],
         error |-> "none"]

\* RealityBranch.merge: the spread of this.log is taken before diff runs,
\* and sort works on the list the array literal allocated
merge(h, this, other) ==
    LET d == diff(h, this, other)
        merged == sort(h[this.log] \o d.result)
    IN  [heap |-> Append(d.heap, merged),
         branch |-> [log |-> Len(d.heap) + 1, reduce |-> this.reduce],
         error |-> "none"]

\* ------------------------------------------------------------------------
\* The state machine: one kernel, the branches its callers hold, and the
\* most recent call with what it returned.
\* ------------------------------------------------------------------------
VARIABLES kernel, heap, branches, nRetro, last

vars == <<kernel, heap, branches, nRetro, last>>

NoCall ==
    [op |-> "new", this |-> 0, other |-> 0, event |-> <<>>, untilT |-> <<>>,
     branch |-> 0, state |-> {}, events |-> <<>>, error |-> "none"]

\* new RealityKernel(defaultReducer): the kernel owns an empty list
Init ==
    /\ kernel = [events |-> 1, reduce |-> "defaultReducer"]
    /\ heap = << <<>> >>
    /\ branches = <<>>
    /\ nRetro = 0
    /\ last = NoCall

KernelAppend(e) ==
    /\ Len(heap[kernel.events]) < MaxLog
    /\ LET r == append(heap, kernel, e)
       IN  /\ heap' = r.heap
           /\ last' = [NoCall EXCEPT !.op = "append", !.event = <<e>>,
                                     !.error = r.error]
    /\ UNCHANGED <<kernel, branches, nRetro>>

KernelFork(untilT) ==
    /\ Len(branches) < MaxBranches
    /\ LET r == fork(heap, kernel, untilT)
       IN  /\ heap' = r.heap
           /\ branches' = Append(branches, r.branch)
           /\ last' = [NoCall EXCEPT !.op = "fork", !.untilT = untilT,
                                     !.branch = Len(branches) + 1,
                                     !.error = r.error]
    /\ UNCHANGED <<kernel, nRetro>>

BranchState(i) ==
    /\ LET r == state(heap, branches[i])
       IN  /\ heap' = r.heap
           /\ last' = [NoCall EXCEPT !.op = "state", !.this = i, !.state = r.result,
                                     !.error = r.error]
    /\ UNCHANGED <<kernel, branches, nRetro>>

BranchRetroInsert(i, e) ==
    /\ LET r == retroInsert(heap, branches[i], e)
       IN  /\ heap' = r.heap
           /\ last' = [NoCall EXCEPT !.op = "retroInsert", !.this = i, !.event = <<e>>,
                                     !.error = r.error]
    /\ nRetro' = nRetro + 1
    /\ UNCHANGED <<kernel, branches>>

BranchDiff(i, j) ==
    /\ LET r == diff(heap, branches[i], branches[j])
       IN  /\ heap' = r.heap
           /\ last' = [NoCall EXCEPT !.op = "diff", !.this = i, !.other = j,
                                     !.events = r.result, !.error = r.error]
    /\ UNCHANGED <<kernel, branches, nRetro>>

BranchMerge(i, j) ==
    /\ LET r == merge(heap, branches[i], branches[j])
       IN  /\ heap' = r.heap
           /\ branches' = Append(branches, r.branch)
           /\ last' = [NoCall EXCEPT !.op = "merge", !.this = i, !.other = j,
                                     !.branch = Len(branches) + 1,
                                     !.error = r.error]
    /\ UNCHANGED <<kernel, nRetro>>

Next ==
    \/ \E e \in Events : KernelAppend(e)
    \/ \E untilT \in Cutoffs : KernelFork(untilT)
    \/ \E i \in DOMAIN branches : BranchState(i)
    \/ \E i \in DOMAIN branches, e \in Events : nRetro < MaxRetro /\ BranchRetroInsert(i, e)
    \/ \E i, j \in DOMAIN branches : BranchDiff(i, j)
    \/ \E i, j \in DOMAIN branches : Len(branches) < MaxBranches /\ BranchMerge(i, j)

Spec == Init /\ [][Next]_vars

\* One kernel and one branch of it: the callers append events to the kernel
\* and insert events into the branch, in any order, as many into the branch
\* as the kernel may take; an event may carry a null payload.
NextOneBranch ==
    \/ \E e \in AllEvents : KernelAppend(e)
    \/ \E untilT \in Cutoffs : branches = <<>> /\ KernelFork(untilT)
    \/ \E i \in DOMAIN branches : BranchState(i)
    \/ \E i \in DOMAIN branches, e \in AllEvents :
          Len(heap[branches[i].log]) < MaxLog /\ BranchRetroInsert(i, e)

SpecOneBranch == Init /\ [][NextOneBranch]_vars

\* Two branches with any lists: the callers have forked an empty kernel
\* twice and inserted the events of list a into the first branch, then
\* those of list b into the second.  From there they read the branches and
\* merge once.
Lists(n) == UNION {[1..k -> Events] : k \in 0..n}

InitPairs ==
    /\ kernel = [events |-> 1, reduce |-> "defaultReducer"]
    /\ branches = <<[log |-> 2, reduce |-> "defaultReducer"],
                    [log |-> 3, reduce |-> "defaultReducer"]>>
    /\ \E a, b \in Lists(MaxLen) :
          /\ Len(a) + Len(b) <= MaxLen
          /\ heap = << <<>>, a, b >>
          /\ nRetro = Len(a) + Len(b)
          /\ last = IF b # <<>>
                    THEN [NoCall EXCEPT !.op = "retroInsert", !.this = 2,
                                        !.event = <<b[Len(b)]>>]
                    ELSE IF a # <<>>
                    THEN [NoCall EXCEPT !.op = "retroInsert", !.this = 1,
                                        !.event = <<a[Len(a)]>>]
                    ELSE [NoCall EXCEPT !.op = "fork", !.branch = 2]

NextPairs ==
    \/ \E i \in DOMAIN branches : BranchState(i)
    \/ \E i, j \in DOMAIN branches : BranchDiff(i, j)
    \/ \E i, j \in DOMAIN branches : Len(branches) = 2 /\ BranchMerge(i, j)

SpecPairs == InitPairs /\ [][NextPairs]_vars

\* Three branches with any lists: the callers have forked an empty kernel
\* three times and inserted the events of lists a, b and c into the first,
\* second and third branch.  From there they merge two of the branches
\* once and read the branches.
InitTriples ==
    /\ kernel = [events |-> 1, reduce |-> "defaultReducer"]
    /\ branches = <<[log |-> 2, reduce |-> "defaultReducer"],
                    [log |-> 3, reduce |-> "defaultReducer"],
                    [log |-> 4, reduce |-> "defaultReducer"]>>
    /\ \E a, b, c \in Lists(MaxLen) :
          /\ Len(a) + Len(b) + Len(c) <= MaxLen
          /\ heap = << <<>>, a, b, c >>
          /\ nRetro = Len(a) + Len(b) + Len(c)
          /\ last = IF c # <<>>
                    THEN [NoCall EXCEPT !.op = "retroInsert", !.this = 3,
                                        !.event = <<c[Len(c)]>>]
                    ELSE IF b # <<>>
                    THEN [NoCall EXCEPT !.op = "retroInsert", !.this = 2,
                                        !.event = <<b[Len(b)]>>]
                    ELSE IF a # <<>>
                    THEN [NoCall EXCEPT !.op = "retroInsert", !.this = 1,
                                        !.event = <<a[Len(a)]>>]
                    ELSE [NoCall EXCEPT !.op = "fork", !.branch = 3]

NextTriples ==
    \/ \E i \in DOMAIN branches : BranchState(i)
    \/ \E i, j \in DOMAIN branches : Len(branches) = 3 /\ BranchMerge(i, j)

SpecTriples == InitTriples /\ [][NextTriples]_vars

\* Forks around zero: t is any number, so the callers also append an event
\* at t = 0 and one at t = -1, and fork with the cutoffs 0 and -1.  They
\* append to the kernel, fork it twice and read the forks, in any order.
IdEF == <<101, 102>>          \* "ef"
IdFE == <<102, 101>>          \* "fe"
EvMinus == [id |-> IdEF, t |-> -1, type |-> "add", payload |-> [key |-> "x", value |-> 4]]
EvZero == [id |-> IdFE, t |-> 0, type |-> "add", payload |-> [key |-> "x", value |-> 5]]
CutoffEvents == {EvMinus, EvZero, EvF1, EvE1}
AllCutoffs == Cutoffs \cup {<<-1>>}

NextCutoffs ==
    \/ \E e \in CutoffEvents : KernelAppend(e)
    \/ \E untilT \in AllCutoffs : Len(branches) < 2 /\ KernelFork(untilT)
    \/ \E i \in DOMAIN branches : BranchState(i)

SpecCutoffs == Init /\ [][NextCutoffs]_vars

\* Two stores: the callers have constructed two kernels, each with any of
\* the two reducers, forked each once, and inserted the events of list a
\* into the fork of the first and those of list b into the fork of the
\* second.  The list of the second kernel, left empty, is the last of the
\* heap.  From there they merge once and read the branches.
Reducers == {"defaultReducer", "reducer"}

InitTwoStores ==
    \E r1, r2 \in Reducers :
        /\ kernel = [events |-> 1, reduce |-> r1]
        /\ branches = <<[log |-> 2, reduce |-> r1], [log |-> 3, reduce |-> r2]>>
        /\ \E a, b \in Lists(MaxLen) :
              /\ Len(a) + Len(b) <= MaxLen
              /\ heap = << <<>>, a, b, <<>> >>
              /\ nRetro = Len(a) + Len(b)
              /\ last = IF b # <<>>
                        THEN [NoCall EXCEPT !.op = "retroInsert", !.this = 2,
                                            !.event = <<b[Len(b)]>>]
                        ELSE IF a # <<>>
                        THEN [NoCall EXCEPT !.op = "retroInsert", !.this = 1,
                                            !.event = <<a[Len(a)]>>]
                        ELSE [NoCall EXCEPT !.op = "fork", !.branch = 2]

NextTwoStores ==
    \/ \E i \in DOMAIN branches : BranchState(i)
    \/ \E i, j \in DOMAIN branches : Len(branches) = 2 /\ BranchMerge(i, j)

SpecTwoStores == InitTwoStores /\ [][NextTwoStores]_vars

\* Two sibling forks and their merge: the callers append to the kernel,
\* fork it twice, merge the two forks once, and insert into any branch, in
\* any order.
NextSiblings ==
    \/ \E e \in Events : KernelAppend(e)
    \/ \E untilT \in Cutoffs : Len(branches) < 2 /\ KernelFork(untilT)
    \/ \E i, j \in DOMAIN branches : Len(branches) = 2 /\ BranchMerge(i, j)
    \/ \E i \in DOMAIN branches, e \in Events :
          nRetro < MaxRetro /\ BranchRetroInsert(i, e)

SpecSiblings == Init /\ [][NextSiblings]_vars

\* ------------------------------------------------------------------------
\* Vocabulary of the properties
\* ------------------------------------------------------------------------
Range(s) == {s[k] : k \in 1..Len(s)}
Count(s, e) == Cardinality({k \in 1..Len(s) : s[k] = e})
SameBag(s1, s2) == \A e \in Range(s1) \cup Range(s2) : Count(s1, e) = Count(s2, e)
IdsOf(s) == {s[k].id : k \in 1..Len(s)}
IdCount(s, id) == Cardinality({k \in 1..Len(s) : s[k].id = id})
NoDupIds(s) == \A id \in IdsOf(s) : IdCount(s, id) = 1

StoreLog == heap[kernel.events]
Log(i) == heap[branches[i].log]
\* what branch.state() returns in the current state
StateNow(branch) == state(heap, branch).result
\* what a.merge(b).state() returns in the current state
MergedState(a, b) ==
    LET m == merge(heap, a, b) IN state(m.heap, m.branch).result

\* ------------------------------------------------------------------------
\* C1  Order independence: the same collection of events, appended to the
\* kernel in one order and inserted into a branch in another, gives the
\* same state(): when the kernel's list and a branch's list hold the same
\* events the same number of times, a fork of the whole kernel and the
\* branch return the same state().
\* Violated: the two events whose ids are canonically equivalent compare
\* as equal, so the stable sort leaves them in insertion order.
\* ------------------------------------------------------------------------
C1_OrderIndependence ==
    \A i \in DOMAIN branches :
        SameBag(StoreLog, Log(i)) =>
            LET f == fork(heap, kernel, <<>>)
            IN  state(f.heap, f.branch).result = StateNow(branches[i])

\* ------------------------------------------------------------------------
\* C2  Merge commutativity on state: a.merge(b).state() equals
\* b.merge(a).state() for any two branches of the kernel.  Stated here for
\* the pairs whose events respect the data model (an id names one event,
\* once in each list); the claim covers them and more.
\* Violated: branches holding the canonically equivalent ids.
\* ------------------------------------------------------------------------
UniqueIds(i, j) ==
    /\ NoDupIds(Log(i))
    /\ NoDupIds(Log(j))
    /\ \A e1 \in Range(Log(i)), e2 \in Range(Log(j)) : e1.id = e2.id => e1 = e2

C2_MergeCommutesOnState ==
    \A i, j \in DOMAIN branches :
        UniqueIds(i, j) =>
            MergedState(branches[i], branches[j]) = MergedState(branches[j], branches[i])

\* ------------------------------------------------------------------------
\* C3  Merge closure: a.merge(b).diff(a) and a.merge(b).diff(b) are empty,
\* and every id of a or of b is in the merged branch: for every pair of
\* branches, and for the branch a merge call has just returned.
\* ------------------------------------------------------------------------
ClosedOver(h, m, a, b) ==
    /\ diff(h, m, a).result = <<>>
    /\ diff(h, m, b).result = <<>>
    /\ IdsOf(h[a.log]) \cup IdsOf(h[b.log]) \subseteq IdsOf(h[m.log])

C3_MergeClosure ==
    /\ \A i, j \in DOMAIN branches :
          LET m == merge(heap, branches[i], branches[j])
          IN  ClosedOver(m.heap, m.branch, branches[i], branches[j])
    /\ last.op = "merge" =>
          ClosedOver(heap, branches[last.branch], branches[last.this], branches[last.other])

\* a merge of two branches that each hold an event the other lacks
C3_Witness ==
    /\ last.op = "merge"
    /\ last.this # last.other
    /\ IdsOf(Log(last.this)) \ IdsOf(Log(last.other)) # {}
    /\ IdsOf(Log(last.other)) \ IdsOf(Log(last.this)) # {}

\* ------------------------------------------------------------------------
\* C4  Diff correctness, as claimed: a.diff(b) holds exactly the events
\* whose id is in b's list and not in a's, holds no id twice, and holds no
\* event that is only in a.
\* Violated: an id that b's list holds twice and a's list lacks comes back
\* twice.
\* ------------------------------------------------------------------------
C4_DiffCorrectness ==
    last.op = "diff" =>
        LET a == Log(last.this)
            b == Log(last.other)
            d == last.events
        IN  /\ Range(d) = {e \in Range(b) : e.id \notin IdsOf(a)}
            /\ NoDupIds(d)
            /\ \A e \in Range(a) : e \notin Range(b) => e \notin Range(d)

\* C4 as amended: a.diff(b) holds exactly the events of b's list whose id
\* is not in a's list, each as many times as b's list holds it (so no id
\* twice when b's list holds no id twice), and no event that is only in a.
C4_DiffCorrectnessAmended ==
    last.op = "diff" =>
        LET a == Log(last.this)
            b == Log(last.other)
            d == last.events
        IN  /\ \A e \in Range(a) \cup Range(b) \cup Range(d) :
                  Count(d, e) = IF e.id \in IdsOf(a) THEN 0 ELSE Count(b, e)
            /\ NoDupIds(b) => NoDupIds(d)
            /\ \A e \in Range(a) : e \notin Range(b) => e \notin Range(d)

\* a diff that returns something, against a branch that shares an id with
\* the receiver, from a receiver with an event of its own
C4_Witness ==
    /\ last.op = "diff"
    /\ last.events # <<>>
    /\ IdsOf(Log(last.this)) \cap IdsOf(Log(last.other)) # {}
    /\ Range(Log(last.this)) \ Range(Log(last.other)) # {}

\* ------------------------------------------------------------------------
\* C5  Fork isolation: a kernel.append after a fork, whatever the t of the
\* appended event, leaves the list and the state() of every branch as they
\* were.
\* ------------------------------------------------------------------------
C5_ForkIsolation ==
    [][last'.op = "append" =>
          \A i \in DOMAIN branches :
              /\ heap'[branches[i].log] = heap[branches[i].log]
              /\ state(heap', branches[i]).result = state(heap, branches[i]).result]_vars

\* an append of an event that a fork taken earlier would have let through:
\* the branch holds an event at least as late, and not the appended one
C5_Witness ==
    /\ last.op = "append"
    /\ nRetro = 0
    /\ \E i \in DOMAIN branches :
          /\ last.event[1] \notin Range(Log(i))
          /\ \E k \in 1..Len(Log(i)) : last.event[1].t <= Log(i)[k].t

\* ------------------------------------------------------------------------
\* C6  Determinism: state() on a branch returns the same result however
\* often it is called, as long as no retroInsert on that branch comes in
\* between: every other call leaves what state() returns for the branch
\* unchanged, and a state() call returns that very result.
\* ------------------------------------------------------------------------
C6_Determinism ==
    [][\A i \in DOMAIN branches :
          ~(last'.op = "retroInsert" /\ last'.this = i) =>
              /\ state(heap', branches[i]).result = state(heap, branches[i]).result
              /\ (last'.op = "state" /\ last'.this = i) =>
                    last'.state = state(heap, branches[i]).result]_vars

\* a state() call on a branch whose list is not in sorted
\* order, returning a non-empty state
C6_Witness ==
    /\ last.op = "state"
    /\ last.state # EmptyState
    /\ Log(last.this) # sort(Log(last.this))

\* ------------------------------------------------------------------------
\* C7  fork(untilT) returns a new branch whose list is exactly the events
\* of the kernel's list with t <= untilT, in the kernel's order (an event
\* with t = untilT is in, an event with t > untilT is out); with untilT
\* omitted it is the whole list.
\* ------------------------------------------------------------------------
C7_ForkCutoff ==
    last.op = "fork" =>
        /\ Log(last.branch) =
              IF last.untilT = <<>> THEN StoreLog
              ELSE SelectSeq(StoreLog, LAMBDA e : e.t <= last.untilT[1])
        /\ branches[last.branch].log # kernel.events
        /\ \A i \in DOMAIN branches :
              i # last.branch => branches[i].log # branches[last.branch].log

\* a fork with a cutoff that keeps an event at the cutoff and drops a later one
C7_Witness ==
    /\ last.op = "fork"
    /\ last.untilT # <<>>
    /\ \E e \in Range(Log(last.branch)) : e.t = last.untilT[1]
    /\ \E e \in Range(StoreLog) : e.t > last.untilT[1]

\* ------------------------------------------------------------------------
\* C8  A fork with untilT earlier than every timestamp in the kernel, and
\* any fork of an empty kernel, returns a branch with an empty list whose
\* state() is the empty state.
\* ------------------------------------------------------------------------
C8_ForkBeforeAll ==
    (/\ last.op = "fork"
     /\ \/ StoreLog = <<>>
        \/ /\ last.untilT # <<>>
           /\ \A e \in Range(StoreLog) : last.untilT[1] < e.t)
    => /\ Log(last.branch) = <<>>
       /\ StateNow(branches[last.branch]) = EmptyState

\* a fork of a kernel that holds events, with a cutoff before all of them
C8_Witness ==
    /\ last.op = "fork"
    /\ StoreLog # <<>>
    /\ last.untilT # <<>>
    /\ \A e \in Range(StoreLog) : last.untilT[1] < e.t

\* ------------------------------------------------------------------------
\* C9  merge does not mutate its inputs: a merge call leaves the lists of
\* both branches (contents and order) and their state() as they were.
\* ------------------------------------------------------------------------
C9_MergeKeepsInputs ==
    [][last'.op = "merge" =>
          \A i \in {last'.this, last'.other} :
              /\ heap'[branches[i].log] = heap[branches[i].log]
              /\ state(heap', branches[i]).result = state(heap, branches[i]).result]_vars

\* a merge of two branches, the receiver's list not in sorted order and
\* lacking an event of the other
C9_Witness ==
    /\ last.op = "merge"
    /\ last.this # last.other
    /\ Log(last.this) # sort(Log(last.this))
    /\ IdsOf(Log(last.other)) \ IdsOf(Log(last.this)) # {}

\* ------------------------------------------------------------------------
\* C10  as claimed: in the list of a.merge(b) no id occurs more than once,
\* for any two branches.
\* Violated: an id that a's list holds twice is twice in the merged list.
\* ------------------------------------------------------------------------
C10_MergeNoDupIds ==
    last.op = "merge" => NoDupIds(Log(last.branch))

\* C10 as amended: merge adds no duplication.  Each id of a's list is in
\* the merged list as often as in a's list, each id only b's list has as
\* often as in b's list; so the merged list holds no id twice when neither
\* a's list nor b's list does.
C10_MergeNoDupIdsAmended ==
    last.op = "merge" =>
        LET a == Log(last.this)
            b == Log(last.other)
            m == Log(last.branch)
        IN  /\ \A id \in IdsOf(a) \cup IdsOf(b) \cup IdsOf(m) :
                  IdCount(m, id) = IF id \in IdsOf(a) THEN IdCount(a, id)
                                   ELSE IdCount(b, id)
            /\ (NoDupIds(a) /\ NoDupIds(b)) => NoDupIds(m)

\* a merge of two branches without duplicates that share an id, the second
\* holding an id the first lacks
C10_Witness ==
    /\ last.op = "merge"
    /\ NoDupIds(Log(last.this))
    /\ NoDupIds(Log(last.other))
    /\ IdsOf(Log(last.this)) \cap IdsOf(Log(last.other)) # {}
    /\ IdsOf(Log(last.other)) \ IdsOf(Log(last.this)) # {}

\* ------------------------------------------------------------------------
\* C11  as claimed: the events of a.merge(b) are the union of the events of
\* a and of b: an event is in the merged list if and only if it is in a's
\* list or in b's list.
\* Violated: an event of b whose id a's list holds for another event is not
\* in the merged list.
\* ------------------------------------------------------------------------
C11_MergeUnion ==
    last.op = "merge" =>
        Range(Log(last.branch)) = Range(Log(last.this)) \cup Range(Log(last.other))

\* C11 as amended: an event is in the list of a.merge(b) if and only if it
\* is in a's list, or in b's list under an id that a's list does not hold;
\* so the merged events are the union when no id names one event in a and
\* another in b.
C11_MergeUnionAmended ==
    last.op = "merge" =>
        LET a == Log(last.this)
            b == Log(last.other)
            m == Log(last.branch)
        IN  /\ Range(m) = Range(a) \cup {e \in Range(b) : e.id \notin IdsOf(a)}
            /\ (\A e1 \in Range(a), e2 \in Range(b) : e1.id = e2.id => e1 = e2)
                  => Range(m) = Range(a) \cup Range(b)

\* a merge of two branches that share an event, the second holding an event
\* under an id the first lacks, no id naming two events
C11_Witness ==
    /\ last.op = "merge"
    /\ Range(Log(last.this)) \cap Range(Log(last.other)) # {}
    /\ IdsOf(Log(last.other)) \ IdsOf(Log(last.this)) # {}
    /\ \A e1 \in Range(Log(last.this)), e2 \in Range(Log(last.other)) :
          e1.id = e2.id => e1 = e2

\* ------------------------------------------------------------------------
\* C12  as claimed: merge is idempotent and commutative in the resulting
\* set of events: a.merge(a) holds the events of a, a.merge(b).merge(b)
\* holds the events of a.merge(b), and a.merge(b) and b.merge(a) hold the
\* same events, for any two branches.
\* Violated: when a and b hold different events under one id, each merge
\* keeps the event of its receiver.
\* ------------------------------------------------------------------------
MergedList(h, a, b) == LET m == merge(h, a, b) IN m.heap[m.branch.log]

\* for m = a.merge(b), just returned: a.merge(a) holds the events of a, and
\* m.merge(b) holds the events of m
Idempotent ==
    /\ Range(MergedList(heap, branches[last.this], branches[last.this]))
          = Range(Log(last.this))
    /\ Range(MergedList(heap, branches[last.branch], branches[last.other]))
          = Range(Log(last.branch))
    /\ last.this = last.other => Range(Log(last.branch)) = Range(Log(last.this))

C12_MergeIdempotentCommutative ==
    last.op = "merge" =>
        /\ Idempotent
        /\ Range(Log(last.branch))
              = Range(MergedList(heap, branches[last.other], branches[last.this]))

\* C12 as amended: idempotent as claimed; a.merge(b) and b.merge(a) hold
\* the same ids, and the same events when no id names one event in a and
\* another in b.
C12_MergeIdempotentCommutativeAmended ==
    last.op = "merge" =>
        LET ba == MergedList(heap, branches[last.other], branches[last.this])
        IN  /\ Idempotent
            /\ IdsOf(Log(last.branch)) = IdsOf(ba)
            /\ (\A e1 \in Range(Log(last.this)), e2 \in Range(Log(last.other)) :
                    e1.id = e2.id => e1 = e2)
                  => Range(Log(last.branch)) = Range(ba)

\* a merge of two branches that each hold an event the other lacks, no id
\* naming two events
C12_Witness ==
    /\ last.op = "merge"
    /\ Range(Log(last.this)) \ Range(Log(last.other)) # {}
    /\ Range(Log(last.other)) \ Range(Log(last.this)) # {}
    /\ \A e1 \in Range(Log(last.this)), e2 \in Range(Log(last.other)) :
          e1.id = e2.id => e1 = e2

\* ------------------------------------------------------------------------
\* C13  The order in which state() hands the events of a branch to the
\* reducer is ascending in t and, among events with equal t, ascending in
\* id by the lexicographic comparison of the ids' code units, whatever the
\* order of the branch's list.
\* Violated: of two events with equal t whose ids are canonically
\* equivalent, the one inserted first is applied first, whichever it is;
\* and an id with an accented e is applied before the id "f".
\* ------------------------------------------------------------------------
Ascending(s) ==
    \A k \in 1..(Len(s) - 1) :
        \/ s[k].t < s[k + 1].t
        \/ s[k].t = s[k + 1].t /\ SeqCompare(s[k].id, s[k + 1].id) <= 0

C13_CanonicalOrder ==
    last.op = "state" => Ascending(sort(Log(last.this)))

\* ------------------------------------------------------------------------
\* C14  The kernel's list is append-only: an append call adds its event at
\* the end and nothing else, no other call changes the list, so the list
\* before any step is a prefix of the list after it; and a fork without a
\* cutoff returns all of it.
\* ------------------------------------------------------------------------
IsPrefix(s1, s2) == Len(s1) <= Len(s2) /\ SubSeq(s2, 1, Len(s1)) = s1

C14_AppendOnly ==
    [][/\ IsPrefix(heap[kernel.events], heap'[kernel'.events])
       /\ last'.op = "append" =>
             heap'[kernel'.events] = Append(heap[kernel.events], last'.event[1])
       /\ last'.op # "append" => heap'[kernel'.events] = heap[kernel.events]
       /\ (last'.op = "fork" /\ last'.untilT = <<>>) =>
             heap'[branches'[last'.branch].log] = heap[kernel.events]]_vars

\* a fork without a cutoff of a kernel that has taken two events, the later
\* appended one to be applied first
C14_Witness ==
    /\ last.op = "fork"
    /\ last.untilT = <<>>
    /\ Len(StoreLog) >= 2
    /\ StoreLog # sort(StoreLog)
    /\ Log(last.branch) = StoreLog

\* ------------------------------------------------------------------------
\* C15  retroInsert adds its event whatever its t, and the next state()
\* call on the branch reflects it at its place in the order by t and then
\* by id: the call returns the fold over the list with the event, put in
\* that order.
\* Violated: an inserted event whose id is canonically equivalent to the id
\* of an event with the same t is applied after it, whichever of the two
\* is the inserted one; and an id with an accented e goes before the id "f".
\* ------------------------------------------------------------------------
CanonCompare(a, b) == IF a.t = b.t THEN SeqCompare(a.id, b.id) ELSE a.t - b.t

CanonInsert(s, x) ==
    LET k == Cardinality({i \in 1..Len(s) : CanonCompare(s[i], x) <= 0})
    IN  SubSeq(s, 1, k) \o <<x>> \o SubSeq(s, k + 1, Len(s))

RECURSIVE CanonSort(_)
CanonSort(s) ==
    IF s = <<>> THEN <<>>
    ELSE CanonInsert(CanonSort(SubSeq(s, 1, Len(s) - 1)), s[Len(s)])

C15_RetroInsertReflected ==
    [][/\ last'.op = "retroInsert" =>
             heap'[branches[last'.this].log]
                = Append(heap[branches[last'.this].log], last'.event[1])
       /\ (last.op = "retroInsert" /\ last'.op = "state" /\ last'.this = last.this) =>
             LET f == Fold(branches[last.this].reduce, EmptyState,
                           CanonSort(heap[branches[last.this].log]))
             IN  last'.state = f.result /\ last'.error = f.error]_vars

\* ------------------------------------------------------------------------
\* C16  No two branches share list storage: the kernel and the branches
\* hold lists at different addresses, and a retroInsert on a branch adds
\* its event to the list of that branch and leaves every other list (the
\* kernel's, a sibling's, a merged-from branch's, a merge result's) as it
\* was.
\* ------------------------------------------------------------------------
OwnStorage(k, bs) ==
    /\ \A i \in DOMAIN bs : bs[i].log # k.events
    /\ \A i, j \in DOMAIN bs : i # j => bs[i].log # bs[j].log

C16_NoSharedStorage ==
    [][/\ OwnStorage(kernel', branches')
       /\ last'.op = "retroInsert" =>
             /\ heap'[branches[last'.this].log]
                   = Append(heap[branches[last'.this].log], last'.event[1])
             /\ heap'[kernel.events] = heap[kernel.events]
             /\ \A i \in DOMAIN branches :
                   i # last'.this => heap'[branches[i].log] = heap[branches[i].log]]_vars

\* a retroInsert into a fork after it was merged, of an event that neither
\* the kernel nor the merge result holds
C16_Witness ==
    /\ last.op = "retroInsert"
    /\ Len(branches) = 3
    /\ last.this # 3
    /\ Len(Log(last.this)) >= 2
    /\ Range(SubSeq(Log(last.this), 1, Len(Log(last.this)) - 1)) \subseteq Range(Log(3))
    /\ last.event[1] \notin Range(Log(3)) \cup Range(StoreLog)

\* ------------------------------------------------------------------------
\* C17  Duplicate ids are not rejected: an append or a retroInsert of an
\* event whose id the list already holds returns without error and leaves
\* the list with the event added at the end, so with both copies; and
\* state() folds every copy in the list: what it returns is the fold over
\* an arrangement of all elements of the list in ascending t.
\* ------------------------------------------------------------------------
Arrangements(s) == {p \in [1..Len(s) -> Range(s)] : SameBag(p, s)}

AscendingT(s) == \A k \in 1..(Len(s) - 1) : s[k].t <= s[k + 1].t

C17_DuplicatesKept ==
    [][/\ (last'.op = "append" /\ last'.event[1].id \in IdsOf(heap[kernel.events])) =>
             /\ last'.error = "none"
             /\ heap'[kernel.events] = Append(heap[kernel.events], last'.event[1])
       /\ (/\ last'.op = "retroInsert"
           /\ last'.event[1].id \in IdsOf(heap[branches[last'.this].log])) =>
             /\ last'.error = "none"
             /\ heap'[branches[last'.this].log]
                   = Append(heap[branches[last'.this].log], last'.event[1])
       /\ last'.op = "state" =>
             \E p \in Arrangements(heap[branches[last'.this].log]) :
                 /\ AscendingT(p)
                 /\ Fold(branches[last'.this].reduce, EmptyState, p)
                       = [result |-> last'.state, error |-> last'.error]]_vars

\* a state() call on a branch whose list holds two different events under
\* one id, the second one inserted into the branch
C17_Witness ==
    /\ last.op = "state"
    /\ nRetro > 0
    /\ \E k, l \in 1..Len(Log(last.this)) :
          /\ k < l
          /\ Log(last.this)[k].id = Log(last.this)[l].id
          /\ Log(last.this)[k] # Log(last.this)[l]

\* ------------------------------------------------------------------------
\* C18  When the reducer throws on an event of the branch, the state() call
\* throws that error instead of returning a state, and the lists are after
\* the call what they were before it; a state() call throws in no other
\* case.
\* ------------------------------------------------------------------------
C18_ReducerFailure ==
    [][last'.op = "state" =>
          LET this == branches[last'.this]
              fails == \E e \in Range(heap[this.log]) : Throws(this.reduce, e)
          IN  /\ fails => last'.error = "TypeError"
              /\ ~fails => last'.error = "none"
              /\ heap' = heap]_vars

\* a state() call that throws on a branch holding, before the event the
\* reducer throws on, an event it folds
C18_Witness ==
    /\ last.op = "state"
    /\ last.error = "TypeError"
    /\ \E e \in Range(Log(last.this)) :
          ~Throws(branches[last.this].reduce, e) /\ compare(e, EvNull) < 0

\* ------------------------------------------------------------------------
\* C19  Merging a branch into one that holds all its events gives the
\* state of the latter: for a and b whose events respect the data model (an
\* id names one event, once in each list) and every event of a in b's
\* list, the state() of the branch a.merge(b) returned is b.state().
\* Violated: a holds one of the two events with canonically equivalent ids,
\* b holds both with the other one first.
\* ------------------------------------------------------------------------
C19_MergeWithSuperset ==
    (/\ last.op = "merge"
     /\ UniqueIds(last.this, last.other)
     /\ Range(Log(last.this)) \subseteq Range(Log(last.other)))
    => StateNow(branches[last.branch]) = StateNow(branches[last.other])

\* ------------------------------------------------------------------------
\* C20  append, fork, retroInsert, diff and merge never fail: every append,
\* fork, retroInsert and merge call made returns without error, whatever
\* the event (an id already present, a t earlier than the events present)
\* and whatever the branches, and in every reachable state diff returns
\* without error on every pair of branches.
\* ------------------------------------------------------------------------
C20_NeverFail ==
    /\ last.op \in {"append", "fork", "retroInsert", "merge"} => last.error = "none"
    /\ \A i, j \in DOMAIN branches :
          diff(heap, branches[i], branches[j]).error = "none"

\* a retroInsert, into a branch that was merged, of an event whose id the
\* branch already holds for a later event
C20_Witness ==
    /\ last.op = "retroInsert"
    /\ Len(branches) = 3
    /\ \E k \in 1..(Len(Log(last.this)) - 1) :
          /\ Log(last.this)[k].id = last.event[1].id
          /\ Log(last.this)[k].t > last.event[1].t

\* ------------------------------------------------------------------------
\* C21  Events are immutable: over every call, each list holds every event
\* it held before, with the same id, t, type and payload, and the lists
\* hold no event that was not held before, other than the event an append
\* or a retroInsert was given; the same goes for a diff and a merge, either
\* way, of each branch with a new fork of the kernel.
\* ------------------------------------------------------------------------
Held(h) == UNION {Range(h[a]) : a \in DOMAIN h}

\* heap h2 holds, list by list, the events heap h held, and besides them
\* only the events of the set given
Preserved(h, h2, given) ==
    /\ \A a \in DOMAIN h : \A e \in Range(h[a]) : Count(h2[a], e) >= Count(h[a], e)
    /\ Held(h2) \subseteq Held(h) \cup given

\* diff and merge, both ways, between a branch and a new fork of the kernel
MergeAndDiffPreserve(h, k, b) ==
    LET f == fork(h, k, <<>>)
    IN  /\ Preserved(h, f.heap, {})
        /\ Preserved(f.heap, merge(f.heap, b, f.branch).heap, {})
        /\ Preserved(f.heap, merge(f.heap, f.branch, b).heap, {})
        /\ diff(f.heap, b, f.branch).heap = f.heap
        /\ diff(f.heap, f.branch, b).heap = f.heap

C21_EventsImmutable ==
    [][/\ Preserved(heap, heap', IF last'.op \in {"append", "retroInsert"}
                                 THEN {last'.event[1]} ELSE {})
       /\ \A i \in DOMAIN branches' : MergeAndDiffPreserve(heap', kernel', branches'[i])]_vars

\* a state() call that had to sort, on a branch that holds an event the
\* kernel lacks and lacks an event the kernel holds
C21_Witness ==
    /\ last.op = "state"
    /\ Log(last.this) # sort(Log(last.this))
    /\ Range(StoreLog) \ Range(Log(last.this)) # {}
    /\ Range(Log(last.this)) \ Range(StoreLog) # {}

\* ------------------------------------------------------------------------
\* C22  Reads interleave safely: a state() or diff() call leaves every list
\* and every branch as it was, and the read made just before it returns,
\* made again after it, what it returned before it: two reads return the
\* same in either order.
\* ------------------------------------------------------------------------
C22_ReadsInterleave ==
    [][last'.op \in {"state", "diff"} =>
          /\ heap' = heap
          /\ branches' = branches
          /\ last.op = "state" =>
                LET r == state(heap', branches'[last.this])
                IN  r.result = last.state /\ r.error = last.error
          /\ last.op = "diff" =>
                LET r == diff(heap', branches'[last.this], branches'[last.other])
                IN  r.result = last.events /\ r.error = last.error]_vars

\* a diff that returned two events or more from a list that is not in
\* sorted order
C22_Witness ==
    /\ last.op = "diff"
    /\ last.this # last.other
    /\ Len(last.events) >= 2
    /\ Log(last.other) # sort(Log(last.other))

\* ------------------------------------------------------------------------
\* C23  as claimed: the list of a.merge(b) is the events of a in the order
\* of a's list, followed by the events of a.diff(b) in the order diff
\* returns them.
\* Violated: merge sorts the concatenation before it builds the branch.
\* ------------------------------------------------------------------------
\* this.log followed by this.diff(other), for the merge just returned
Concatenation ==
    Log(last.this) \o diff(heap, branches[last.this], branches[last.other]).result

C23_MergeIsConcatenation ==
    last.op = "merge" => Log(last.branch) = Concatenation

\* C23  amended: the list of a.merge(b) holds the events of a's list
\* followed by a.diff(b), each as often as there, sorted by t and then by
\* id.localeCompare, events that compare equal staying in the order they
\* have in that concatenation.
C23_Amended ==
    last.op = "merge" =>
        LET m == Log(last.branch)
            c == Concatenation
        IN  /\ SameBag(m, c)
            /\ \A k \in 1..(Len(m) - 1) : compare(m[k], m[k + 1]) <= 0
            /\ \A e1, e2 \in Range(c) :
                  compare(e1, e2) = 0 =>
                     SelectSeq(m, LAMBDA e : e \in {e1, e2})
                        = SelectSeq(c, LAMBDA e : e \in {e1, e2})

\* a merge whose list is not the concatenation and holds, in the order of
\* the concatenation, two events that compare equal
C23_Witness ==
    /\ last.op = "merge"
    /\ Log(last.branch) # Concatenation
    /\ \E k \in 1..(Len(Log(last.branch)) - 1) :
          /\ Log(last.branch)[k] # Log(last.branch)[k + 1]
          /\ compare(Log(last.branch)[k], Log(last.branch)[k + 1]) = 0

\* ------------------------------------------------------------------------
\* C24  state() works on a copy: a state() call leaves the list of its
\* branch as it was, the same events in the same order, and every diff
\* against that branch returns after the call the events it returned before
\* it, in the same order.
\* ------------------------------------------------------------------------
C24_StateOnSnapshot ==
    [][last'.op = "state" =>
          /\ heap'[branches'[last'.this].log] = heap[branches[last'.this].log]
          /\ \A j \in DOMAIN branches :
                diff(heap', branches'[j], branches'[last'.this]).result
                   = diff(heap, branches[j], branches[last'.this]).result]_vars

\* a state() on a branch whose list is not in sorted order, another branch's
\* diff against it returning two events or more that sorting would reorder
C24_Witness ==
    /\ last.op = "state"
    /\ \E j \in DOMAIN branches :
          LET d == diff(heap, branches[j], branches[last.this]).result
          IN  Len(d) >= 2 /\ d # sort(d)

\* ------------------------------------------------------------------------
\* C25  A branch's list only grows at its end: over every call, each
\* branch is the branch it was and its list before the call is a prefix of
\* its list after the call; the list changes only in a retroInsert on that
\* branch, which adds the event given as the one new last element.
\* ------------------------------------------------------------------------
C25_BranchListGrowsByAppends ==
    [][\A i \in DOMAIN branches :
          /\ branches'[i] = branches[i]
          /\ IsPrefix(Log(i), heap'[branches'[i].log])
          /\ heap'[branches'[i].log] # Log(i) =>
                /\ last'.op = "retroInsert"
                /\ last'.this = i
                /\ heap'[branches'[i].log] = Append(Log(i), last'.event[1])]_vars

\* a retroInsert, with a sibling branch present, of an event earlier than
\* the event at the head of the list
C25_Witness ==
    /\ last.op = "retroInsert"
    /\ Len(branches) >= 2
    /\ Len(Log(last.this)) >= 2
    /\ Log(last.this)[Len(Log(last.this))] = last.event[1]
    /\ last.event[1].t < Log(last.this)[1].t

\* ------------------------------------------------------------------------
\* C26  fork does not mutate its source and a branch does not write back:
\* over every call other than append the kernel's list stays as it was, and
\* a fork() without cutoff returns a branch whose list is the kernel's list
\* as it was before the call, whatever was inserted into earlier forks.
\* ------------------------------------------------------------------------
C26_NoWriteBack ==
    [][/\ kernel' = kernel
       /\ last'.op # "append" => heap'[kernel'.events] = StoreLog
       /\ (last'.op = "fork" /\ last'.untilT = <<>>) =>
             heap'[branches'[last'.branch].log] = StoreLog]_vars

\* a fork() without cutoff of a kernel that holds events, taken after a
\* retroInsert gave an earlier fork an event the kernel does not hold
C26_Witness ==
    /\ last.op = "fork"
    /\ last.untilT = <<>>
    /\ nRetro > 0
    /\ StoreLog # <<>>
    /\ Log(last.branch) = StoreLog
    /\ \E i \in 1..(last.branch - 1) : Range(Log(i)) \ Range(StoreLog) # {}

\* ------------------------------------------------------------------------
\* C27  On an id conflict merge keeps the receiver's copy: when a and b
\* hold different events under one id, the events a.merge(b) holds under
\* that id are the events a holds under it, each as often as a holds it,
\* so a's event is there and b's is not; and the events b.merge(a) holds
\* under it are those b holds under it.
\* ------------------------------------------------------------------------
\* the events of list s under the id
Under(s, id) == SelectSeq(s, LAMBDA e : e.id = id)

Conflict(a, b, id) ==
    \E ea \in Range(a), eb \in Range(b) : ea.id = id /\ eb.id = id /\ ea # eb

C27_ReceiverWinsConflict ==
    last.op = "merge" =>
        LET a == Log(last.this)
            b == Log(last.other)
            ab == Log(last.branch)
            ba == MergedList(heap, branches[last.other], branches[last.this])
        IN  \A id \in IdsOf(a) \cap IdsOf(b) :
               Conflict(a, b, id) =>
                  /\ SameBag(Under(ab, id), Under(a, id))
                  /\ SameBag(Under(ba, id), Under(b, id))
                  /\ \A ea \in Range(a), eb \in Range(b) :
                        (ea.id = id /\ eb.id = id /\ ea \notin Range(b) /\ eb \notin Range(a)) =>
                           /\ ea \in Range(ab) /\ eb \notin Range(ab)
                           /\ eb \in Range(ba) /\ ea \notin Range(ba)

\* a merge of two branches that hold, under one id, an event each that the
\* other does not hold
C27_Witness ==
    /\ last.op = "merge"
    /\ \E ea \in Range(Log(last.this)), eb \in Range(Log(last.other)) :
          /\ ea.id = eb.id
          /\ ea \notin Range(Log(last.other))
          /\ eb \notin Range(Log(last.this))

\* ------------------------------------------------------------------------
\* C28  append before fork and retroInsert after fork agree: for every
\* event e, state() of a fork() taken after kernel.append(e) returns what
\* state() returns on a fork() taken before it and then given
\* retroInsert(e), the same state or the same failure.
\* ------------------------------------------------------------------------
C28_AppendBeforeForkIsRetroInsertAfter ==
    \A e \in AllEvents :
        LET appended == append(heap, kernel, e)
            late == fork(appended.heap, kernel, <<>>)
            early == fork(heap, kernel, <<>>)
            inserted == retroInsert(early.heap, early.branch, e)
            s1 == state(late.heap, late.branch)
            s2 == state(inserted.heap, early.branch)
        IN  s1.result = s2.result /\ s1.error = s2.error

\* a state() on a fork that was given by retroInsert the event the kernel
\* was given by append, after an event both hold
C28_Witness ==
    /\ last.op = "state"
    /\ nRetro > 0
    /\ Len(StoreLog) >= 2
    /\ Log(last.this) = StoreLog

\* ------------------------------------------------------------------------
\* C29  merge agrees with retroInsert of the diff: state() of a.merge(b)
\* returns what state() returns on a branch that starts with the events of
\* a, in a's order, and is then given retroInsert(e) for every e of
\* a.diff(b), in the order diff returns them.
\* ------------------------------------------------------------------------
\* the heap after this.retroInsert(e) for every e of s, in order
RECURSIVE RetroInsertAll(_, _, _)
RetroInsertAll(h, this, s) ==
    IF s = <<>> THEN h
    ELSE RetroInsertAll(retroInsert(h, this, s[1]).heap, this, SubSeq(s, 2, Len(s)))

C29_MergeIsRetroInsertOfDiff ==
    last.op = "merge" =>
        LET a == branches[last.this]
            d == diff(heap, a, branches[last.other])
            copy == [log |-> Len(d.heap) + 1, reduce |-> a.reduce]
            filled == RetroInsertAll(Append(d.heap, Log(last.this)), copy, d.result)
            s1 == state(heap, branches[last.branch])
            s2 == state(filled, copy)
        IN  s1.result = s2.result /\ s1.error = s2.error

\* a merge that took from the other branch an event that compares equal
\* to another event of the merged list
C29_Witness ==
    /\ last.op = "merge"
    /\ \E e1 \in Range(Log(last.this)) :
       \E e2 \in Range(diff(heap, branches[last.this], branches[last.other]).result) :
          e1 # e2 /\ compare(e1, e2) = 0

\* ------------------------------------------------------------------------
\* C30  merge is associative on state: for branches a, b and c with one
\* reducer and no id naming two events or held twice in a list,
\* a.merge(b).merge(c).state() returns what a.merge(b.merge(c)).state()
\* returns.
\* ------------------------------------------------------------------------
\* no list of the branches in S holds an id twice and no id names two
\* events in them
SystemUniqueIds(S) ==
    /\ \A i \in S : NoDupIds(Log(i))
    /\ \A i, j \in S : \A e1 \in Range(Log(i)), e2 \in Range(Log(j)) :
          e1.id = e2.id => e1 = e2

\* for a.merge(b), just returned as the branch last.branch, and every c
C30_MergeAssociativeOnState ==
    last.op = "merge" =>
        \A k \in DOMAIN branches :
            SystemUniqueIds({last.this, last.other, k}) =>
                LET a == branches[last.this]
                    b == branches[last.other]
                    c == branches[k]
                    ab == branches[last.branch]
                    abc == merge(heap, ab, c)
                    bc == merge(heap, b, c)
                    a_bc == merge(bc.heap, a, bc.branch)
                    s1 == state(abc.heap, abc.branch)
                    s2 == state(a_bc.heap, a_bc.branch)
                IN  s1.result = s2.result /\ s1.error = s2.error

\* a merge of two branches, a third branch at hand, the three holding
\* three different events between them, two of which compare equal
C30_Witness ==
    /\ last.op = "merge"
    /\ Len(branches) = 4
    /\ \E k \in 1..3 :
          /\ k \notin {last.this, last.other}
          /\ last.this # last.other
          /\ SystemUniqueIds({last.this, last.other, k})
          /\ Log(k) # <<>> /\ Log(last.this) # <<>> /\ Log(last.other) # <<>>
          /\ Cardinality(Range(Log(k)) \cup Range(Log(last.this)) \cup Range(Log(last.other))) = 3
          /\ \E e1 \in Range(Log(k)), e2 \in Range(Log(last.other)) :
                e1 # e2 /\ compare(e1, e2) = 0

\* ------------------------------------------------------------------------
\* C31  Only an absent untilT means no limit: fork(0) and fork of a
\* negative cutoff return the events of the kernel's list with t <= the
\* cutoff, in the kernel's order, so never the whole list when the kernel
\* holds a later event; fork() without argument returns the whole list.
\* ------------------------------------------------------------------------
C31_OnlyAbsentIsNoLimit ==
    last.op = "fork" =>
        /\ last.untilT = <<>> => Log(last.branch) = StoreLog
        /\ (last.untilT # <<>> /\ last.untilT[1] <= 0) =>
              /\ \A e \in Range(StoreLog) :
                    Count(Log(last.branch), e) =
                       (IF e.t <= last.untilT[1] THEN Count(StoreLog, e) ELSE 0)
              /\ Log(last.branch) = SelectSeq(StoreLog, LAMBDA e : e \in Range(Log(last.branch)))
              /\ (\E e \in Range(StoreLog) : e.t > last.untilT[1]) =>
                    Log(last.branch) # StoreLog

\* a fork with the cutoff 0 or a negative one that kept an event of the
\* kernel and dropped a later one
C31_Witness ==
    /\ last.op = "fork"
    /\ last.untilT # <<>>
    /\ last.untilT[1] <= 0
    /\ Log(last.branch) # <<>>
    /\ \E e \in Range(StoreLog) : e.t > 0

\* ------------------------------------------------------------------------
\* C32  fork is monotone in its cutoff: when the kernel is forked twice
\* with nothing appended in between, with cutoffs t1 and t2, t1 <= t2,
\* every event of fork(t1) is an event of fork(t2), as often at least, and
\* fork(t2).diff(fork(t1)) is empty; the order of the two forks does not
\* matter.
\* ------------------------------------------------------------------------
\* the branch lo was forked with a cutoff that is not later than that of
\* the branch hi, on heap h
Monotone(h, lo, hi) ==
    /\ \A e \in Range(h[lo.log]) : Count(h[lo.log], e) <= Count(h[hi.log], e)
    /\ diff(h, hi, lo).result = <<>>

C32_ForkMonotone ==
    [][(/\ last.op = "fork" /\ last'.op = "fork"
        /\ last.untilT # <<>> /\ last'.untilT # <<>>) =>
          LET first == branches'[last.branch]
              second == branches'[last'.branch]
          IN  /\ last.untilT[1] <= last'.untilT[1] => Monotone(heap', first, second)
              /\ last'.untilT[1] <= last.untilT[1] => Monotone(heap', second, first)]_vars

\* the second of two forks of a kernel that holds an event at t = 0 or
\* before and a later one, this fork with a cutoff, the other branch
\* holding an event that this one lacks
C32_Witness ==
    /\ last.op = "fork"
    /\ last.branch = 2
    /\ last.untilT # <<>>
    /\ \E e \in Range(StoreLog) : e.t <= 0
    /\ Range(Log(1)) \ Range(Log(2)) # {}
    /\ Log(2) = SelectSeq(StoreLog, LAMBDA e : e.t <= last.untilT[1])
    /\ Log(2) # <<>>

\* ------------------------------------------------------------------------
\* C33  diff detects divergence by id: a.diff(a) is empty for every branch
\* a, and a.diff(b) is empty exactly when every id of b's list occurs in
\* a's list.
\* ------------------------------------------------------------------------
C33_DiffEmptyIffIdsCovered ==
    /\ \A i \in DOMAIN branches : diff(heap, branches[i], branches[i]).result = <<>>
    /\ last.op = "diff" =>
          /\ last.error = "none"
          /\ last.events = <<>> <=> IdsOf(Log(last.other)) \subseteq IdsOf(Log(last.this))
          /\ last.this = last.other => last.events = <<>>

\* an empty diff against a branch that holds an event the receiver lacks,
\* under an id the receiver holds
C33_Witness ==
    /\ last.op = "diff"
    /\ last.events = <<>>
    /\ last.this # last.other
    /\ Range(Log(last.other)) \ Range(Log(last.this)) # {}

\* ------------------------------------------------------------------------
\* C34  diff is read-only and order-preserving: a diff call leaves the
\* lists of both branches as they were, and the events it returns are
\* events of the other branch's list in the order they have there.
\* ------------------------------------------------------------------------
\* s is t with some of its elements left out
RECURSIVE IsSubsequence(_, _)
IsSubsequence(s, t) ==
    IF s = <<>> THEN TRUE
    ELSE IF t = <<>> THEN FALSE
    ELSE IF Head(s) = Head(t) THEN IsSubsequence(Tail(s), Tail(t))
    ELSE IsSubsequence(s, Tail(t))

C34_DiffReadOnlyInOrder ==
    [][last'.op = "diff" =>
          /\ heap'[branches'[last'.this].log] = Log(last'.this)
          /\ heap'[branches'[last'.other].log] = Log(last'.other)
          /\ branches' = branches
          /\ IsSubsequence(last'.events, Log(last'.other))]_vars

\* a diff by a branch that holds events, returning two events or more in
\* an order that is not the sorted one
C34_Witness ==
    /\ last.op = "diff"
    /\ Log(last.this) # <<>>
    /\ Len(last.events) >= 2
    /\ last.events # sort(last.events)

\* ------------------------------------------------------------------------
\* C35  as claimed: the list of the branch a merge returns is in ascending
\* (t, id) order when merge returns, ids compared by their code units,
\* whatever the orders of the two lists merged; the list of a forked branch
\* is in the order of the kernel's list.
\* Violated: merge sorts with localeCompare, which takes two canonically
\* equivalent ids for equal and leaves them in the order of the
\* concatenation, and which puts an accented e before f.
\* ------------------------------------------------------------------------
C35_MergedListSorted ==
    /\ last.op = "merge" => Ascending(Log(last.branch))
    /\ last.op = "fork" =>
          IsSubsequence(Log(last.branch), StoreLog)

\* ------------------------------------------------------------------------
\* C36  A merged branch folds with the receiver's reducer: a.merge(b) has
\* the reducer of a, and its state() is the fold of its sorted list with
\* the reducer of a, also when b comes from a store constructed with
\* another reducer; a state() call on any branch folds with the reducer
\* that branch has.
\* ------------------------------------------------------------------------
C36_MergedFoldsWithReceiversReducer ==
    /\ last.op = "merge" =>
          LET a == branches[last.this]
              m == branches[last.branch]
              s == state(heap, m)
              f == Fold(a.reduce, EmptyState, sort(Log(last.branch)))
          IN  /\ m.reduce = a.reduce
              /\ s.result = f.result
              /\ s.error = f.error
    /\ last.op = "state" =>
          LET f == Fold(branches[last.this].reduce, EmptyState, sort(Log(last.this)))
          IN  last.state = f.result /\ last.error = f.error

\* a merge of two branches with different reducers, the merged list
\* folding to one state with the one and to another state with the other
C36_Witness ==
    /\ last.op = "merge"
    /\ branches[last.this].reduce # branches[last.other].reduce
    /\ Fold(branches[last.this].reduce, EmptyState, sort(Log(last.branch))).result
          # Fold(branches[last.other].reduce, EmptyState, sort(Log(last.branch))).result
    /\ Range(Log(last.other)) \ Range(Log(last.this)) # {}

====
